---------------------------- MODULE Spec2Model ----------------------------
(***************************************************************************)
(* Model of src/db.rs: the books table behind a connection pool (the       *)
(* Store), the process-wide CACHE (an RwLock<Option<Vec<Book>>>) and the   *)
(* five data-access functions all_books, book_by_id, add_book, update_book *)
(* and delete_book, run by concurrent callers.  Every await of the source  *)
(* is a separate step: acquiring the lock, the Store statement, and the    *)
(* in-memory critical section that ends by dropping the guard.             *)
(*                                                                         *)
(* A call starts with its first await: the read lock for all_books, the    *)
(* Store statement for the other four.  A caller may drop the future of a  *)
(* call at any await; the call then ends there and returns nothing.        *)
(*                                                                         *)
(* History variables (not program state) record what the claims speak of:  *)
(* ev, nops, listQueries, storeVer, cacheVer, doneVer, qVer, mVer, mGone,  *)
(* made, gone, past.                                                       *)
(***************************************************************************)
EXTENDS Integers, Sequences, FiniteSets, TLC

\* ------------------------------------------------------------- bounds
NumProcs == 2        \* concurrent callers
MaxOps == 3          \* operations started in one run
MaxId == 2           \* ids the serial sequence hands out in one run

Procs == 1..NumProcs
Ids == 1..(MaxId + 1)          \* ids a caller may ask for; MaxId + 1 is never assigned
NoProc == 0

\* Text values (String): the empty string and one non-empty one, in
\* lexicographic order.
TextOrder == <<"", "A">>
Text == {TextOrder[i] : i \in 1..Len(TextOrder)}
TextRank(t) == CHOOSE i \in 1..Len(TextOrder) : TextOrder[i] = t
TextLeq(s, t) == TextRank(s) <= TextRank(t)

\* struct Book
Book == [id : Ids, title : Text, author : Text]

\* Option<Vec<Book>>
None == [tag |-> "None"]
Some(v) == [tag |-> "Some", val |-> v]

VARIABLES
    store,        \* the books table: a set of rows
    nextId,       \* the table's serial id sequence
    cache,        \* CACHE.all_books, the value behind the RwLock
    readers,      \* callers holding a read guard of the RwLock
    writer,       \* the caller holding the write guard, or NoProc
    pc,           \* where each caller is
    op,           \* the function each caller is running
    books,        \* all_books' local `books`
    newId,        \* add_book's local `id`
    ev,           \* history: what the latest step let its caller observe
    handle,       \* the memory cell of the Vec the latest step handed its caller
    nops,         \* history: calls started
    listQueries,  \* history: list queries issued to the Store
    storeVer,     \* history: mutating statements that succeeded in the Store
    cacheVer,     \* history: storeVer when the snapshot's query ran
    doneVer,      \* history: latest storeVer of a mutation that has returned
    qVer,         \* history: storeVer when each caller's list query ran
    mVer,         \* history: storeVer each caller's mutating statement produced
    mGone,        \* history: the id of `made` each caller's DELETE was given, or 0
    made,         \* history: ids that add_book has returned
    gone,         \* history: ids of `made` for which delete_book has then returned Ok
    past          \* history: every ordered contents the table has had

vars == <<store, nextId, cache, readers, writer, pc, op, books, newId, ev, handle,
          nops, listQueries, storeVer, cacheVer, doneVer, qVer, mVer, mGone,
          made, gone, past>>

lockVars == <<readers, writer>>
storeVars == <<store, nextId, storeVer, past>>
localVars == <<books, newId, qVer, mVer, mGone>>
lifeVars == <<made, gone>>

\* ------------------------------------------------------------- the Store

\* Mutant of RowLeq: the order the doc comment names, ORDER BY title, author.
RowLeqTitleFirst(r, s) ==
    \/ TextRank(r.title) < TextRank(s.title)
    \/ /\ r.title = s.title
       /\ TextLeq(r.author, s.author)

\* ORDER BY id, title, author
RowLeq(r, s) ==
    \/ r.id < s.id
    \/ /\ r.id = s.id
       /\ \/ TextRank(r.title) < TextRank(s.title)
          \/ /\ r.title = s.title
             /\ TextLeq(r.author, s.author)

RECURSIVE SortRows(_)
SortRows(S) ==
    IF S = {} THEN <<>>
    ELSE LET m == CHOOSE r \in S : \A s \in S : RowLeq(r, s)
         IN  <<m>> \o SortRows(S \ {m})

\* SELECT * FROM books ORDER BY id, title,author
SelectAllOrdered(S) == SortRows(S)

\* SELECT * FROM books WHERE id=$1
SelectById(S, i) == {r \in S : r.id = i}

\* Mutant of InsertRow: the two binds in the wrong order.
InsertRowSwapped(S, i, t, a) == S \cup {[id |-> i, title |-> a, author |-> t]}

\* INSERT INTO books (title, author) VALUES ($1, $2) RETURNING id
InsertRow(S, i, t, a) == S \cup {[id |-> i, title |-> t, author |-> a]}

\* Mutant of UpdateRow: the WHERE clause left out.
UpdateRowNoWhere(S, b) ==
    {[r EXCEPT !.title = b.title, !.author = b.author] : r \in S}

\* UPDATE books SET title=$1, author=$2 WHERE id=$3
UpdateRow(S, b) ==
    {IF r.id = b.id THEN [r EXCEPT !.title = b.title, !.author = b.author] ELSE r : r \in S}

\* DELETE FROM books WHERE id=$1
DeleteRow(S, i) == {r \in S : r.id # i}

\* The id the table generates for a new row: the next value of its serial
\* primary key, never one handed out before.
GeneratedId == nextId

\* ------------------------------------------------------------- results
NoArg == [none |-> TRUE]
OkList(v) == [kind |-> "OkList", val |-> v]
OkBook(b) == [kind |-> "OkBook", val |-> b]
OkId(i) == [kind |-> "OkId", val |-> i]
OkUnit == [kind |-> "OkUnit"]
NotFound == [kind |-> "NotFound"]
StoreError == [kind |-> "StoreError"]
Cancelled == [kind |-> "Cancelled"]

NoRet == [kind |-> "none"]

\* What a step lets its caller observe: nothing; a mutating statement that
\* took effect (who, which function, with what arguments); or a return (who,
\* from which function, at which point of it, called with what, with what
\* result).
NoEvent == [what |-> "none", proc |-> NoProc, op |-> "none", at |-> "none",
            arg |-> NoArg, ret |-> NoRet]
Statement(p, f, a) == [what |-> "statement", proc |-> p, op |-> f, at |-> f,
                       arg |-> a, ret |-> NoRet]
Return(p, f, l, a, r) == [what |-> "return", proc |-> p, op |-> f, at |-> l,
                          arg |-> a, ret |-> r]

\* A caller's change to the Vec it was handed (the edited Vec).
EditedList(v) == [kind |-> "Edited", val |-> v]
Edited(p, l, v) == [what |-> "edit", proc |-> p, op |-> "all_books", at |-> l,
                    arg |-> NoArg, ret |-> EditedList(v)]

\* The memory cells a Vec<Book> can live in: the one behind the RwLock
\* ("cache"), all_books' local ("books"), or one of its own ("copy").
NoHandle == "none"

\* Mutant of Clone: the copy is the original (a shared handle, no copy made).
CloneSameCell(c) == c

\* Vec::clone of the Vec in cell c: the copy lives in a cell of its own.
Clone(c) == "copy"

\* What a caller may do to a Vec it holds: push a book, remove the first
\* one, change the first one's title.
EditKinds == {"push", "remove", "retitle"}
Edit(v, k) ==
    CASE k = "push" -> v \o <<[id |-> MaxId + 1, title |-> "A", author |-> ""]>>
      [] k = "remove" -> Tail(v)
      [] k = "retitle" -> [v EXCEPT ![1].title = IF v[1].title = "" THEN "A" ELSE ""]

\* The functions whose first await is their Store statement.
StoreFirst == {"book_by_id", "add_book", "update_book", "delete_book"}

\* The rows the migrations leave in the table at start-up: none, or one.
SeedStores == {{}, {[id |-> 1, title |-> "A", author |-> "A"]}}

Init ==
    /\ store \in SeedStores
    /\ nextId = Cardinality(store) + 1
    /\ cache = None
    /\ readers = {}
    /\ writer = NoProc
    /\ pc = [p \in Procs |-> "idle"]
    /\ op = [p \in Procs |-> "none"]
    /\ books = [p \in Procs |-> <<>>]
    /\ newId = [p \in Procs |-> 0]
    /\ ev = NoEvent
    /\ handle = NoHandle
    /\ nops = 0
    /\ listQueries = 0
    /\ storeVer = 0
    /\ cacheVer = 0
    /\ doneVer = 0
    /\ qVer = [p \in Procs |-> 0]
    /\ mVer = [p \in Procs |-> 0]
    /\ mGone = [p \in Procs |-> 0]
    /\ made = {}
    /\ gone = {}
    /\ past = {SelectAllOrdered(store)}

\* ------------------------------------------------------------- callers

Max(a, b) == IF a >= b THEN a ELSE b

\* Caller p can start a call.
CanCall(p) == pc[p] = "idle" /\ nops < MaxOps

\* Mutant of StoreFails: the snapshot is discarded on the error path too.
StoreFailsInvalidates(p, f, cancelled) ==
    /\ IF f = "all_books"
       THEN pc[p] = "query" /\ nops' = nops
       ELSE CanCall(p) /\ nops' = nops + 1
    /\ pc' = [pc EXCEPT ![p] = "idle"]
    /\ op' = [op EXCEPT ![p] = "none"]
    /\ handle' = NoHandle
    /\ ev' = Return(p, f, IF f = "all_books" THEN "query" ELSE f, NoArg,
                    IF cancelled THEN Cancelled ELSE StoreError)
    /\ listQueries' = IF f = "all_books" THEN listQueries + 1 ELSE listQueries
    /\ cache' = None
    /\ UNCHANGED <<storeVars, lockVars, localVars, cacheVer, doneVer, lifeVars>>

\* The Store call of function f fails (query or connection error) and `?`
\* returns the error; cancelled = TRUE: the caller drops the future while it
\* awaits the call.
StoreFails(p, f, cancelled) ==
    /\ IF f = "all_books"
       THEN pc[p] = "query" /\ nops' = nops
       ELSE CanCall(p) /\ nops' = nops + 1
    /\ pc' = [pc EXCEPT ![p] = "idle"]
    /\ op' = [op EXCEPT ![p] = "none"]
    /\ handle' = NoHandle
    /\ ev' = Return(p, f, IF f = "all_books" THEN "query" ELSE f, NoArg,
                    IF cancelled THEN Cancelled ELSE StoreError)
    /\ listQueries' = IF f = "all_books" THEN listQueries + 1 ELSE listQueries
    /\ UNCHANGED <<storeVars, cache, lockVars, localVars, cacheVer, doneVer, lifeVars>>

\* The caller drops the future of a call while it awaits the RwLock: the read
\* lock at the start of all_books, or the write lock of CACHE.refresh() or
\* CACHE.invalidate().  The call ends there: nothing is returned and the rest
\* of the function does not run.
Dropped(p) ==
    /\ IF pc[p] = "idle"
       THEN nops < MaxOps /\ nops' = nops + 1
       ELSE pc[p] \in {"refresh", "invalidate"} /\ nops' = nops
    /\ handle' = NoHandle
    /\ ev' = Return(p, IF pc[p] = "idle" THEN "all_books" ELSE op[p],
                    IF pc[p] = "idle" THEN "all_books" ELSE pc[p],
                    NoArg, Cancelled)
    /\ pc' = [pc EXCEPT ![p] = "idle"]
    /\ op' = [op EXCEPT ![p] = "none"]
    /\ books' = [books EXCEPT ![p] = <<>>]
    /\ newId' = [newId EXCEPT ![p] = 0]
    /\ qVer' = [qVer EXCEPT ![p] = 0]
    /\ mVer' = [mVer EXCEPT ![p] = 0]
    /\ mGone' = [mGone EXCEPT ![p] = 0]
    /\ UNCHANGED <<storeVars, cache, lockVars, listQueries, cacheVer, doneVer,
                   lifeVars>>

\* ---- BookCache

\* all_books is called; BookCache::all_books: self.all_books.read().await
CacheReadLock(p) ==
    /\ CanCall(p)
    /\ writer = NoProc
    /\ readers' = readers \cup {p}
    /\ pc' = [pc EXCEPT ![p] = "cache_read"]
    /\ op' = [op EXCEPT ![p] = "all_books"]
    /\ nops' = nops + 1
    /\ handle' = NoHandle
    /\ ev' = NoEvent
    /\ UNCHANGED <<storeVars, cache, writer, localVars,
                   listQueries, cacheVer, doneVer, lifeVars>>

\* Mutant of CacheClone: the copy is ignored and the Store is always queried.
CacheCloneAlwaysMiss(p) ==
    /\ pc[p] = "cache_read"
    /\ readers' = readers \ {p}
    /\ pc' = [pc EXCEPT ![p] = "query"]
    /\ handle' = NoHandle
    /\ ev' = NoEvent
    /\ UNCHANGED <<storeVars, cache, writer, op, localVars, nops,
                   listQueries, cacheVer, doneVer, lifeVars>>

\* Mutant of CacheClone: on a miss the read guard is kept while the call goes
\* on to the query and the refresh.
CacheCloneKeepsGuard(p) ==
    /\ pc[p] = "cache_read"
    /\ readers' = IF cache.tag = "Some" THEN readers \ {p} ELSE readers
    /\ IF cache.tag = "Some"
       THEN /\ handle' = "copy"
            /\ ev' = Return(p, "all_books", "cache_read", NoArg, OkList(cache.val))
            /\ pc' = [pc EXCEPT ![p] = "idle"]
            /\ op' = [op EXCEPT ![p] = "none"]
       ELSE /\ handle' = NoHandle
            /\ ev' = NoEvent
            /\ pc' = [pc EXCEPT ![p] = "query"]
            /\ op' = op
    /\ UNCHANGED <<storeVars, cache, writer, localVars, nops,
                   listQueries, cacheVer, doneVer, lifeVars>>

\* BookCache::all_books: lock.clone(), the guard dropped; all_books returns
\* the copy when it is Some, and goes on to the query when it is None.
CacheClone(p) ==
    /\ pc[p] = "cache_read"
    /\ readers' = readers \ {p}
    /\ IF cache.tag = "Some"
       THEN /\ handle' = Clone("cache")
            /\ ev' = Return(p, "all_books", "cache_read", NoArg, OkList(cache.val))
            /\ pc' = [pc EXCEPT ![p] = "idle"]
            /\ op' = [op EXCEPT ![p] = "none"]
       ELSE /\ handle' = NoHandle
            /\ ev' = NoEvent
            /\ pc' = [pc EXCEPT ![p] = "query"]
            /\ op' = op
    /\ UNCHANGED <<storeVars, cache, writer, localVars, nops,
                   listQueries, cacheVer, doneVer, lifeVars>>

\* Mutant of CacheWriteLock: the write guard is granted while readers hold
\* theirs.
CacheWriteLockBarging(p) ==
    /\ pc[p] \in {"refresh", "invalidate"}
    /\ writer = NoProc
    /\ writer' = p
    /\ pc' = [pc EXCEPT ![p] = IF pc[p] = "refresh" THEN "refresh_locked"
                                                  ELSE "invalidate_locked"]
    /\ handle' = NoHandle
    /\ ev' = NoEvent
    /\ UNCHANGED <<storeVars, cache, readers, op, localVars, nops,
                   listQueries, cacheVer, doneVer, lifeVars>>

\* BookCache::refresh / BookCache::invalidate: self.all_books.write().await
CacheWriteLock(p) ==
    /\ pc[p] \in {"refresh", "invalidate"}
    /\ writer = NoProc
    /\ readers = {}
    /\ writer' = p
    /\ pc' = [pc EXCEPT ![p] = IF pc[p] = "refresh" THEN "refresh_locked"
                                                  ELSE "invalidate_locked"]
    /\ handle' = NoHandle
    /\ ev' = NoEvent
    /\ UNCHANGED <<storeVars, cache, readers, op, localVars, nops,
                   listQueries, cacheVer, doneVer, lifeVars>>

\* Mutant of CacheRefresh: a snapshot that is already there is kept.
CacheRefreshIfEmpty(p) ==
    /\ pc[p] = "refresh_locked"
    /\ cache' = IF cache.tag = "Some" THEN cache ELSE Some(books[p])
    /\ cacheVer' = IF cache.tag = "Some" THEN cacheVer ELSE qVer[p]
    /\ writer' = NoProc
    /\ handle' = "books"
    /\ ev' = Return(p, "all_books", "refresh_locked", NoArg, OkList(books[p]))
    /\ books' = [books EXCEPT ![p] = <<>>]
    /\ qVer' = [qVer EXCEPT ![p] = 0]
    /\ pc' = [pc EXCEPT ![p] = "idle"]
    /\ op' = [op EXCEPT ![p] = "none"]
    /\ UNCHANGED <<storeVars, readers, newId, nops, listQueries, doneVer,
                   mVer, mGone, lifeVars>>

\* BookCache::refresh: *lock = Some(books), the guard dropped; all_books
\* returns Ok(books).
CacheRefresh(p) ==
    /\ pc[p] = "refresh_locked"
    /\ cache' = Some(books[p])
    /\ cacheVer' = qVer[p]
    /\ writer' = NoProc
    /\ handle' = IF Clone("books") = "books" THEN "cache" ELSE "books"
    /\ ev' = Return(p, "all_books", "refresh_locked", NoArg, OkList(books[p]))
    /\ books' = [books EXCEPT ![p] = <<>>]
    /\ qVer' = [qVer EXCEPT ![p] = 0]
    /\ pc' = [pc EXCEPT ![p] = "idle"]
    /\ op' = [op EXCEPT ![p] = "none"]
    /\ UNCHANGED <<storeVars, readers, newId, nops, listQueries, doneVer,
                   mVer, mGone, lifeVars>>

\* What a mutating function returns after CACHE.invalidate().
MutationResult(p) == IF op[p] = "add_book" THEN OkId(newId[p]) ELSE OkUnit

\* The ids add_book has returned, once p's call has returned.
MadeAfter(p) == IF op[p] = "add_book" THEN made \cup {newId[p]} ELSE made

\* The ids add_book has returned and delete_book has then returned Ok for,
\* once p's call has returned.
GoneAfter(p) == IF mGone[p] # 0 THEN gone \cup {mGone[p]} ELSE gone

\* Mutant of CacheInvalidate: the assignment *lock = None left out.
CacheInvalidateKeeps(p) ==
    /\ pc[p] = "invalidate_locked"
    /\ cache' = cache
    /\ writer' = NoProc
    /\ handle' = NoHandle
    /\ ev' = Return(p, op[p], "invalidate_locked", NoArg, MutationResult(p))
    /\ doneVer' = Max(doneVer, mVer[p])
    /\ made' = MadeAfter(p)
    /\ gone' = GoneAfter(p)
    /\ newId' = [newId EXCEPT ![p] = 0]
    /\ mVer' = [mVer EXCEPT ![p] = 0]
    /\ mGone' = [mGone EXCEPT ![p] = 0]
    /\ pc' = [pc EXCEPT ![p] = "idle"]
    /\ op' = [op EXCEPT ![p] = "none"]
    /\ UNCHANGED <<storeVars, readers, books, nops, listQueries, cacheVer, qVer>>

\* BookCache::invalidate: *lock = None, the guard dropped; add_book returns
\* Ok(id), update_book and delete_book return Ok(()).
CacheInvalidate(p) ==
    /\ pc[p] = "invalidate_locked"
    /\ cache' = None
    /\ writer' = NoProc
    /\ handle' = NoHandle
    /\ ev' = Return(p, op[p], "invalidate_locked", NoArg, MutationResult(p))
    /\ doneVer' = Max(doneVer, mVer[p])
    /\ made' = MadeAfter(p)
    /\ gone' = GoneAfter(p)
    /\ newId' = [newId EXCEPT ![p] = 0]
    /\ mVer' = [mVer EXCEPT ![p] = 0]
    /\ mGone' = [mGone EXCEPT ![p] = 0]
    /\ pc' = [pc EXCEPT ![p] = "idle"]
    /\ op' = [op EXCEPT ![p] = "none"]
    /\ UNCHANGED <<storeVars, readers, books, nops, listQueries, cacheVer, qVer>>

\* ---- the Store statements of the five functions

\* Mutant of QueryAll: only the first row is fetched (fetch_optional in place
\* of fetch_all).
QueryAllFirstRow(p) ==
    /\ pc[p] = "query"
    /\ books' = [books EXCEPT ![p] = IF store = {} THEN <<>>
                                      ELSE <<Head(SelectAllOrdered(store))>>]
    /\ qVer' = [qVer EXCEPT ![p] = storeVer]
    /\ listQueries' = listQueries + 1
    /\ pc' = [pc EXCEPT ![p] = "refresh"]
    /\ handle' = NoHandle
    /\ ev' = NoEvent
    /\ UNCHANGED <<storeVars, cache, lockVars, op, newId, nops,
                   cacheVer, doneVer, mVer, mGone, lifeVars>>

\* all_books: the list query succeeds.
QueryAll(p) ==
    /\ pc[p] = "query"
    /\ books' = [books EXCEPT ![p] = SelectAllOrdered(store)]
    /\ qVer' = [qVer EXCEPT ![p] = storeVer]
    /\ listQueries' = listQueries + 1
    /\ pc' = [pc EXCEPT ![p] = "refresh"]
    /\ handle' = NoHandle
    /\ ev' = NoEvent
    /\ UNCHANGED <<storeVars, cache, lockVars, op, newId, nops,
                   cacheVer, doneVer, mVer, mGone, lifeVars>>

\* The rows of a list.
SeqRows(q) == {q[k] : k \in 1..Len(q)}

\* What fetch_one gives for id i: the row, or RowNotFound when there is none.
FetchOne(S, i) ==
    IF SelectById(S, i) = {} THEN NotFound
    ELSE OkBook(CHOOSE r \in SelectById(S, i) : TRUE)

\* Mutant of BookById: the row is looked up in the snapshot when there is one.
BookByIdFromCache(p, i) ==
    /\ CanCall(p)
    /\ handle' = NoHandle
    /\ ev' = Return(p, "book_by_id", "book_by_id", [id |-> i],
                    FetchOne(IF cache.tag = "Some" THEN SeqRows(cache.val) ELSE store, i))
    /\ nops' = nops + 1
    /\ UNCHANGED <<storeVars, cache, lockVars, pc, op, localVars,
                   listQueries, cacheVer, doneVer, lifeVars>>

\* book_by_id is called and its query succeeds.
BookById(p, i) ==
    /\ CanCall(p)
    /\ handle' = NoHandle
    /\ ev' = Return(p, "book_by_id", "book_by_id", [id |-> i], FetchOne(store, i))
    /\ nops' = nops + 1
    /\ UNCHANGED <<storeVars, cache, lockVars, pc, op, localVars,
                   listQueries, cacheVer, doneVer, lifeVars>>

\* The mutating statement of function f, which p has just called with
\* arguments a, succeeded: on to CACHE.invalidate().
Mutated(p, f, a) ==
    /\ nops' = nops + 1
    /\ storeVer' = storeVer + 1
    /\ past' = past \cup {SelectAllOrdered(store')}
    /\ mVer' = [mVer EXCEPT ![p] = storeVer + 1]
    /\ pc' = [pc EXCEPT ![p] = "invalidate"]
    /\ op' = [op EXCEPT ![p] = f]
    /\ mGone' = [mGone EXCEPT ![p] = IF f = "delete_book" /\ a.id \in made
                                     THEN a.id ELSE 0]
    /\ handle' = NoHandle
    /\ ev' = Statement(p, f, a)
    /\ UNCHANGED <<cache, lockVars, books, listQueries, cacheVer, doneVer, qVer,
                   lifeVars>>

\* add_book is called; its INSERT succeeds and returns the generated id.
AddBook(p, t, a) ==
    /\ CanCall(p)
    /\ GeneratedId <= MaxId
    /\ store' = InsertRow(store, GeneratedId, t, a)
    /\ nextId' = GeneratedId + 1
    /\ newId' = [newId EXCEPT ![p] = GeneratedId]
    /\ Mutated(p, "add_book", [title |-> t, author |-> a])

\* Mutant of UpdateBook: an UPDATE that matched no row returns at once,
\* without CACHE.invalidate().
UpdateBookSkipsNoop(p, b) ==
    /\ CanCall(p)
    /\ store' = UpdateRow(store, b)
    /\ UNCHANGED <<nextId, newId>>
    /\ IF SelectById(store, b.id) = {}
       THEN /\ nops' = nops + 1
            /\ handle' = NoHandle
            /\ ev' = Return(p, "update_book", "update_book", b, OkUnit)
            /\ storeVer' = storeVer + 1
            /\ past' = past \cup {SelectAllOrdered(store')}
            /\ UNCHANGED <<cache, lockVars, pc, op, books, listQueries,
                           cacheVer, doneVer, qVer, mVer, mGone, lifeVars>>
       ELSE Mutated(p, "update_book", b)

\* update_book is called; its UPDATE succeeds (whether or not a row matched).
UpdateBook(p, b) ==
    /\ CanCall(p)
    /\ store' = UpdateRow(store, b)
    /\ UNCHANGED <<nextId, newId>>
    /\ Mutated(p, "update_book", b)

\* Mutant of DeleteBook: CACHE.invalidate() left out of delete_book.
DeleteBookNoInvalidate(p, i) ==
    /\ CanCall(p)
    /\ nops' = nops + 1
    /\ store' = DeleteRow(store, i)
    /\ storeVer' = storeVer + 1
    /\ past' = past \cup {SelectAllOrdered(store')}
    /\ doneVer' = storeVer + 1
    /\ handle' = NoHandle
    /\ ev' = Return(p, "delete_book", "delete_book", [id |-> i], OkUnit)
    /\ gone' = IF i \in made THEN gone \cup {i} ELSE gone
    /\ UNCHANGED <<nextId, newId, cache, lockVars, pc, op, books,
                   listQueries, cacheVer, qVer, mVer, mGone, made>>

\* delete_book is called; its DELETE succeeds (whether or not a row matched).
DeleteBook(p, i) ==
    /\ CanCall(p)
    /\ store' = DeleteRow(store, i)
    /\ UNCHANGED <<nextId, newId>>
    /\ Mutated(p, "delete_book", [id |-> i])

\* The caller that all_books has just returned a Vec to changes that Vec: the
\* change lands in the cell the Vec lives in.
CallerEdits(p, k) ==
    /\ ev.what = "return"
    /\ ev.proc = p
    /\ ev.ret.kind = "OkList"
    /\ k = "push" \/ ev.ret.val # <<>>
    /\ cache' = IF handle = "cache" THEN Some(Edit(ev.ret.val, k)) ELSE cache
    /\ handle' = NoHandle
    /\ ev' = Edited(p, ev.at, Edit(ev.ret.val, k))
    /\ UNCHANGED <<storeVars, lockVars, pc, op, localVars, nops, listQueries,
                   cacheVer, doneVer, lifeVars>>

\* One step of caller p.
Step(p) ==
    \/ \E f \in StoreFirst \cup {"all_books"}, c \in BOOLEAN : StoreFails(p, f, c)
    \/ Dropped(p)
    \/ CacheReadLock(p)
    \/ CacheClone(p)
    \/ CacheWriteLock(p)
    \/ CacheRefresh(p)
    \/ CacheInvalidate(p)
    \/ QueryAll(p)
    \/ \E i \in Ids : BookById(p, i)
    \/ \E t \in Text, a \in Text : AddBook(p, t, a)
    \/ \E b \in Book : UpdateBook(p, b)
    \/ \E i \in Ids : DeleteBook(p, i)
    \/ \E k \in EditKinds : CallerEdits(p, k)

Next == \E p \in Procs : Step(p)

Spec == Init /\ [][Next]_vars

\* Callers that do not overlap: a call starts only when no other call is in
\* flight, and every call that has changed the table runs until it returns.
SeqNext ==
    \E p \in Procs :
        /\ \A q \in Procs \ {p} : pc[q] = "idle"
        /\ Step(p)
        /\ pc[p] = "invalidate" => pc'[p] = "invalidate_locked"

SeqSpec == Init /\ [][SeqNext]_vars

\* Scheduling: the runtime keeps polling every task, so the synchronous
\* sections run to their end; every Store call eventually returns, with a
\* result or an error; and the RwLock grants a guard that is waited for once
\* it can (tokio's RwLock queues its waiters fairly).  Nothing makes a caller
\* start a call, drop a future or change a list.
Fairness ==
    \A p \in Procs :
        /\ WF_vars(CacheClone(p))
        /\ WF_vars(CacheRefresh(p))
        /\ WF_vars(CacheInvalidate(p))
        /\ WF_vars(QueryAll(p) \/ \E c \in BOOLEAN : StoreFails(p, "all_books", c))
        /\ WF_vars(CacheWriteLock(p))

FairSpec == Spec /\ Fairness


\* ------------------------------------------------------------- properties

Mutators == {"add_book", "update_book", "delete_book"}
FailKinds == {"StoreError", "Cancelled"}

IdsOf(S) == {r.id : r \in S}

\* A mutating statement took effect and its call has not yet returned.
Completing == \E p \in Procs : pc[p] \in {"invalidate", "invalidate_locked"}

\* An all_books call found the snapshot None and has not returned.
MissInFlight == \E p \in Procs : pc[p] \in {"query", "refresh", "refresh_locked"}

\* The snapshot is older than a mutation that has returned.
Stale == cache.tag = "Some" /\ cacheVer < doneVer

\* ---- C1

\* C1 as stated: in every reachable state, under every interleaving, a present
\* snapshot is the result of a list query that ran after every mutation that
\* has returned successfully (so the next all_books never returns older data).
C1_NoStaleSnapshot == ~Stale

\* C1 amended: a present snapshot becomes older than a returned mutation only
\* in the step in which an all_books call, whose list query ran before that
\* mutation took effect, writes its result into the snapshot after the
\* mutation's invalidation; no other step makes the snapshot stale.
C1_StaleOnlyByLateRefresh ==
    [][(~Stale /\ Stale') =>
          \E p \in Procs : /\ pc[p] = "refresh_locked"
                           /\ pc'[p] = "idle"
                           /\ qVer[p] < doneVer]_vars

\* C1 witness: a mutation has returned, and afterwards an all_books call
\* rebuilt the snapshot from a query at least as new and returned it.
C1_FreshAfterMutation ==
    /\ doneVer > 0
    /\ cache.tag = "Some"
    /\ cacheVer >= doneVer
    /\ cache.val # <<>>
    /\ ev.what = "return" /\ ev.op = "all_books" /\ ev.ret = OkList(cache.val)

\* ---- C2

\* C2: the step in which a call fails or is cancelled ends the call and leaves
\* the snapshot, the lock and the table as they were; a Store error is returned
\* only from the Store call; and no step of a call up to and including its
\* Store call changes the snapshot, so a failed all_books leaves None in place
\* and a failed mutation never reaches the invalidation.
C2_FailureKeepsSnapshot ==
    [][/\ (ev'.what = "return" /\ ev'.ret.kind \in FailKinds) =>
             /\ pc'[ev'.proc] = "idle"
             /\ cache' = cache
             /\ cacheVer' = cacheVer
             /\ store' = store
             /\ nextId' = nextId
             /\ readers' = readers
             /\ writer' = writer
       /\ (ev'.what = "return" /\ ev'.ret = StoreError) =>
             ev'.at \in {"query"} \cup StoreFirst
       /\ \A p \in Procs :
             (/\ pc[p] \in {"idle", "cache_read", "query"}
              /\ (pc'[p] # pc[p] \/ ev'.proc = p)) =>
                 cache' = cache]_vars

\* C2 witness: a mutating call has just failed at its Store call while a
\* snapshot was present, and the snapshot is still there.
C2_FailedWithSnapshotKept ==
    /\ ev.what = "return"
    /\ ev.ret = StoreError
    /\ ev.op \in Mutators
    /\ cache.tag = "Some"
    /\ cache.val # <<>>

\* ---- C3

\* C3 as stated: once the snapshot is populated and while no create, update or
\* delete is running, the snapshot keeps its data and the Store sees no further
\* list query.
C3_PopulatedStaysQuiet ==
    [][(cache.tag = "Some" /\ ~Completing) =>
          (cache' = cache /\ listQueries' = listQueries)]_vars

\* C3 amended: the same, provided also that no other all_books call that found
\* the snapshot None is still in flight; an all_books call that finds a
\* snapshot returns it without a query, one that finds None issues exactly one
\* list query and stores and returns that query's result.
C3_ReadThrough ==
    [][/\ (cache.tag = "Some" /\ ~Completing /\ ~MissInFlight) =>
             (cache' = cache /\ listQueries' = listQueries)
       /\ \A p \in Procs :
             /\ (pc[p] = "cache_read" /\ pc'[p] # pc[p]) =>
                   /\ listQueries' = listQueries
                   /\ cache' = cache
                   /\ IF cache.tag = "Some"
                      THEN /\ pc'[p] = "idle"
                           /\ ev' = Return(p, "all_books", "cache_read", NoArg,
                                           OkList(cache.val))
                      ELSE pc'[p] = "query" /\ ev' = NoEvent
             /\ (pc[p] = "query" /\ pc'[p] # pc[p]) =>
                   listQueries' = listQueries + 1
             /\ (pc[p] = "query" /\ pc'[p] = "refresh") =>
                   books'[p] = SelectAllOrdered(store)
             /\ (pc[p] \in {"refresh", "refresh_locked"} /\ pc'[p] # pc[p]) =>
                   listQueries' = listQueries
             /\ (pc[p] = "refresh_locked" /\ pc'[p] # pc[p]) =>
                   /\ cache' = Some(books[p])
                   /\ pc'[p] = "idle"
                   /\ ev' = Return(p, "all_books", "refresh_locked", NoArg,
                                   OkList(books[p]))]_vars

\* C3 witness: two all_books calls and nothing else have run, the Store saw
\* one list query, and the second call has just returned the snapshot.
C3_ServedFromSnapshot ==
    /\ nops = 2
    /\ listQueries = 1
    /\ storeVer = 0
    /\ cache.tag = "Some"
    /\ cache.val # <<>>
    /\ ev = Return(ev.proc, "all_books", "cache_read", NoArg, OkList(cache.val))

\* ---- C4

\* C4: every mutating statement that succeeds, whether or not it matched a
\* row, sends its call to CACHE.invalidate() and nowhere else; from there the
\* call takes the write lock and then sets the snapshot to None as it returns
\* (or is dropped by its caller while it waits for the lock, and returns
\* nothing); and a mutating call returns success in no other step.
C4_AlwaysInvalidates ==
    [][\A p \in Procs :
          /\ (storeVer' # storeVer /\ ev'.proc = p) =>
                /\ ev'.what = "statement"
                /\ ev'.op \in Mutators
                /\ pc'[p] = "invalidate"
          /\ (pc[p] = "invalidate" /\ pc'[p] # pc[p]) =>
                \/ pc'[p] = "invalidate_locked"
                \/ pc'[p] = "idle" /\ ev'.ret = Cancelled /\ cache' = cache
          /\ (pc[p] = "invalidate_locked" /\ pc'[p] # pc[p]) =>
                /\ pc'[p] = "idle"
                /\ cache' = None
                /\ ev'.what = "return"
                /\ ev'.ret.kind \in {"OkId", "OkUnit"}
          /\ (/\ ev'.what = "return"
              /\ ev'.proc = p
              /\ ev'.ret.kind \in {"OkId", "OkUnit"}) =>
                /\ pc[p] = "invalidate_locked"
                /\ ev'.op \in Mutators
                /\ cache' = None]_vars

\* C4 witness: the table never held a row, so the delete_book whose DELETE
\* succeeded matched none; it holds the write lock on a populated snapshot,
\* which its next step discards.
C4_NoopAboutToInvalidate ==
    /\ store = {}
    /\ nextId = 1
    /\ cache.tag = "Some"
    /\ \E p \in Procs : /\ pc[p] = "invalidate_locked"
                        /\ op[p] = "delete_book"
                        /\ writer = p

\* ---- C5

\* The snapshot lists a row that add_book returned the id of and that a
\* delete_book, which has returned, then removed.
HoldsGone ==
    /\ cache.tag = "Some"
    /\ \E r \in SeqRows(cache.val) : r.id \in gone

\* C5 as stated: under every interleaving, once create has returned id N and
\* delete(N) has returned, no snapshot (and so no all_books call that starts
\* afterwards) lists id N.
C5_DeletedNeverListed == ~HoldsGone

\* C5 amended: the snapshot comes to list a row whose delete has returned only
\* in the step in which an all_books call, whose list query ran before the
\* latest mutation took effect, writes its result into the snapshot; every
\* other all_books call that starts after the delete returns a list without N.
C5_ListedOnlyByLateRefresh ==
    [][(~HoldsGone /\ HoldsGone') =>
          \E p \in Procs : /\ pc[p] = "refresh_locked"
                           /\ pc'[p] = "idle"
                           /\ qVer[p] < storeVer]_vars

\* C5 witness: a created row was deleted, the delete has returned, and an
\* all_books call has then rebuilt the snapshot from the table as it is now
\* and returned it without the row.
C5_DeletedAndRelisted ==
    /\ gone # {}
    /\ cache.tag = "Some"
    /\ ~HoldsGone
    /\ cacheVer = storeVer
    /\ ev = Return(ev.proc, "all_books", "refresh_locked", NoArg, OkList(cache.val))

\* ---- C6

\* C6: the step of book_by_id leaves the snapshot and the lock alone and
\* answers from the table as it is now: the row with the id asked for, or
\* NotFound when the table has none, whatever the snapshot holds.
C6_GetBypassesCache ==
    [][(ev'.what = "return" /\ ev'.op = "book_by_id") =>
          /\ cache' = cache
          /\ readers' = readers
          /\ writer' = writer
          /\ store' = store
          /\ pc' = pc
          /\ ev'.ret.kind \notin FailKinds =>
                IF ev'.arg.id \in IdsOf(store)
                THEN /\ ev'.ret.kind = "OkBook"
                     /\ ev'.ret.val \in store
                     /\ ev'.ret.val.id = ev'.arg.id
                ELSE ev'.ret = NotFound]_vars

\* C6 witness: book_by_id has just returned a row of the table that the
\* present snapshot does not hold (the snapshot is not yet invalidated, or
\* stale).
C6_GetSeesWhatSnapshotLacks ==
    /\ ev.what = "return"
    /\ ev.op = "book_by_id"
    /\ ev.ret.kind = "OkBook"
    /\ ev.ret.val \in store
    /\ cache.tag = "Some"
    /\ ev.ret.val \notin SeqRows(cache.val)

\* ---- C7

SeedIds == UNION {IdsOf(S) : S \in SeedStores}

\* book_by_id that returns a row returns the one row the table holds for the id.
GetReturnsTableRow ==
    (ev'.what = "return" /\ ev'.op = "book_by_id" /\ ev'.ret.kind = "OkBook") =>
        SelectById(store, ev'.arg.id) = {ev'.ret.val}

\* C7: the INSERT of add_book that succeeds adds exactly the row
\* {N, title, author} under an id N no row has and the sequence never gave
\* out, and changes no other row; add_book returns that N; afterwards the row
\* with id N changes only by an UPDATE or DELETE keyed by N; and book_by_id
\* returns the row the table holds.
C7_CreateRoundTrip ==
    [][/\ (ev'.what = "statement" /\ ev'.op = "add_book") =>
             LET N == newId'[ev'.proc]
                 row == [id |-> N, title |-> ev'.arg.title, author |-> ev'.arg.author]
             IN  /\ N \notin IdsOf(store)
                 /\ N >= nextId
                 /\ nextId' > N
                 /\ row \notin store
                 /\ store' = store \cup {row}
       /\ (ev'.what = "return" /\ ev'.op = "add_book" /\ ev'.ret.kind = "OkId") =>
             /\ ev'.ret.val = newId[ev'.proc]
             /\ store' = store
       /\ GetReturnsTableRow
       /\ \A i \in Ids :
             (SelectById(store', i) # SelectById(store, i)) =>
                /\ ev'.what = "statement"
                /\ \/ ev'.op = "add_book" /\ newId'[ev'.proc] = i
                   \/ ev'.op \in {"update_book", "delete_book"} /\ ev'.arg.id = i]_vars

\* C7 witness: the one mutation so far was an add_book with an empty title,
\* which has returned, and book_by_id has just returned the created row.
C7_CreatedThenRead ==
    /\ storeVer = 1
    /\ ev.what = "return"
    /\ ev.op = "book_by_id"
    /\ ev.ret.kind = "OkBook"
    /\ ev.ret.val.id \in made
    /\ ev.ret.val.id \notin SeedIds
    /\ ev.ret.val.title = ""
    /\ ev.ret.val \in store

\* ---- C8

\* C8: the UPDATE of update_book that succeeds keeps the set of ids and every
\* row with another id; when a row has the id, that row gets the title and
\* author given and keeps its id; when none has, the table is unchanged; and
\* book_by_id returns the row the table holds.
C8_UpdateKeyedById ==
    [][/\ (ev'.what = "statement" /\ ev'.op = "update_book") =>
             LET b == ev'.arg
             IN  /\ IdsOf(store') = IdsOf(store)
                 /\ Cardinality(store') = Cardinality(store)
                 /\ \A r \in store : r.id # b.id => r \in store'
                 /\ b.id \in IdsOf(store) => SelectById(store', b.id) = {b}
                 /\ b.id \notin IdsOf(store) => store' = store
                 /\ nextId' = nextId
       /\ GetReturnsTableRow]_vars

\* C8 witness: with two rows in the table, an UPDATE has just succeeded for
\* one of them, whose earlier state the snapshot still shows; the other row
\* has another title.
C8_UpdatedOneOfTwo ==
    /\ ev.what = "statement"
    /\ ev.op = "update_book"
    /\ ev.arg \in store
    /\ Cardinality(store) = 2
    /\ \E r \in store : r.id # ev.arg.id /\ r.title # ev.arg.title
    /\ cache.tag = "Some"
    /\ \E r \in SeqRows(cache.val) : r.id = ev.arg.id /\ r.title # ev.arg.title

\* ---- C9

\* Ascending by (id, title, author), as the claim states it.
C9_Leq(r, s) ==
    \/ r.id < s.id
    \/ r.id = s.id /\ TextRank(r.title) < TextRank(s.title)
    \/ r.id = s.id /\ r.title = s.title /\ TextRank(r.author) <= TextRank(s.author)

C9_Ordered(q) ==
    \A i, j \in 1..Len(q) : i < j => (C9_Leq(q[i], q[j]) /\ q[i].id # q[j].id)

C10_Leq(r, s) ==
    \/ TextRank(r.title) < TextRank(s.title)
    \/ r.title = s.title /\ TextRank(r.author) <= TextRank(s.author)

\* C10: every list all_books returns is ordered ascending by title, with ties
\* broken by author.
C10_SortedByTitleAuthor ==
    ev.ret.kind = "OkList" =>
        \A i, j \in 1..Len(ev.ret.val) :
            i < j => C10_Leq(ev.ret.val[i], ev.ret.val[j])

\* ---- C11

\* C11: no Vec that all_books hands its caller lives in the snapshot's memory
\* (each is a copy, or the local the snapshot was copied from), and the step
\* in which the caller changes the Vec it received, whether it was served from
\* the snapshot or by the call that populated it, leaves the snapshot, the
\* query results other calls hold and the table as they were; so later
\* all_books calls return what they would have returned without the change.
C11_CopyIsolation ==
    [][/\ handle' # "cache"
       /\ (ev'.what = "return" /\ ev'.ret.kind = "OkList") => handle' # NoHandle
       /\ ev'.what = "edit" =>
             /\ cache' = cache
             /\ books' = books
             /\ store' = store
             /\ ev.what = "return"
             /\ ev'.ret.val # ev.ret.val]_vars

\* C11 witness: a caller has just changed the Vec that all_books served it
\* from the snapshot, and the snapshot still holds the unchanged data.
C11_EditedCopyOnly ==
    /\ ev.what = "edit"
    /\ ev.at = "cache_read"
    /\ cache.tag = "Some"
    /\ cache.val # <<>>
    /\ ev.ret.val # cache.val

\* ---- C12

\* C12 as stated: the snapshot changes only from None to Some, in the step in
\* which an all_books call whose query succeeded stores its result, and from
\* Some to None, in the step in which a mutation whose statement succeeded
\* invalidates; no step replaces one Some by another.
C12_TwoTransitions ==
    [][cache' # cache =>
          \/ /\ cache = None
             /\ \E p \in Procs : pc[p] = "refresh_locked" /\ cache' = Some(books[p])
          \/ /\ cache.tag = "Some"
             /\ cache' = None
             /\ \E p \in Procs : pc[p] = "invalidate_locked" /\ pc'[p] = "idle"]_vars

\* C12 amended: the snapshot starts None and changes only in the step in which
\* an all_books call whose query succeeded stores its result (the snapshot
\* becomes Some of that result, whether it was None or already Some, which
\* happens when two calls both found it None) and in the step in which a
\* mutation whose statement succeeded invalidates (it becomes None); an
\* all_books call that finds it Some, and every failed or cancelled step,
\* leave it unchanged.
C12_Transitions ==
    /\ cache = None
    /\ [][/\ cache' # cache =>
                \/ \E p \in Procs : /\ pc[p] = "refresh_locked"
                                    /\ pc'[p] = "idle"
                                    /\ cache' = Some(books[p])
                \/ \E p \in Procs : /\ pc[p] = "invalidate_locked"
                                    /\ pc'[p] = "idle"
                                    /\ cache.tag = "Some"
                                    /\ cache' = None
          /\ \A p \in Procs :
                (pc[p] = "refresh_locked" /\ pc'[p] # pc[p]) =>
                    cache' = Some(books[p])
          /\ (ev'.what = "return" /\ ev'.at = "cache_read") => cache' = cache
          /\ (ev'.what = "return" /\ ev'.ret.kind \in FailKinds) =>
                cache' = cache]_vars

\* C12 witness: the snapshot is Some and an all_books call that had found it
\* None holds the write lock, about to replace it by other data.
C12_AboutToReplace ==
    /\ cache.tag = "Some"
    /\ \E p \in Procs : /\ pc[p] = "refresh_locked"
                        /\ writer = p
                        /\ books[p] # cache.val

\* ---- C13

\* C13: a caller holds a read guard only in the section that copies the
\* snapshot and the write guard only in the section that assigns it; a caller
\* that is idle, awaiting its Store call or awaiting the lock holds no guard;
\* the write guard is never held together with a read guard (and by one caller
\* at most); and while an all_books call awaits its Store query and no
\* assignment is under way, another caller can take the read guard.
C13_LockingDiscipline ==
    /\ \A p \in Procs :
          /\ p \in readers <=> pc[p] = "cache_read"
          /\ writer = p <=> pc[p] \in {"refresh_locked", "invalidate_locked"}
          /\ pc[p] \in {"idle", "query", "refresh", "invalidate"} =>
                (p \notin readers /\ writer # p)
    /\ writer \in Procs \cup {NoProc}
    /\ writer # NoProc => readers = {}
    /\ \A p, q \in Procs :
          (pc[q] = "query" /\ CanCall(p) /\ writer = NoProc) =>
              ENABLED CacheReadLock(p)

\* C13 witness: one all_books call awaits its Store query while another
\* caller holds the read guard on a populated snapshot.
C13_ReadDuringQuery ==
    \E p, q \in Procs :
        /\ pc[q] = "query"
        /\ pc[p] = "cache_read"
        /\ p \in readers
        /\ cache.tag = "Some"

\* ---- C14

\* The step is the invalidation of a mutation whose statement succeeded.
InvalidationStep ==
    /\ cache' = None
    /\ \E p \in Procs : pc[p] = "invalidate_locked" /\ pc'[p] = "idle"

\* An all_books call that finds the stale snapshot returns it, without a query,
\* and leaves it stale.
StaleIsServed ==
    \A p \in Procs :
        (Stale /\ pc[p] = "cache_read" /\ pc'[p] # pc[p]) =>
            /\ ev' = Return(p, "all_books", "cache_read", NoArg, OkList(cache.val))
            /\ listQueries' = listQueries
            /\ Stale'

\* C14 as stated: once a call's late write has made the snapshot stale, every
\* all_books call that finds it returns it without a query, and the snapshot
\* stays stale until the step in which the next successful mutation
\* invalidates it: no other step ends the staleness.
C14_StaleUntilMutation ==
    [][/\ StaleIsServed
       /\ (Stale /\ ~Stale') => InvalidationStep]_vars

\* C14 amended: the same, except that the staleness is also ended by the write
\* of another all_books call that had found the snapshot None, is still in
\* flight, and ran its query after every mutation that has returned.
C14_StaleUntilMutationOrFreshWrite ==
    [][/\ StaleIsServed
       /\ (Stale /\ ~Stale') =>
             \/ InvalidationStep
             \/ \E p \in Procs : /\ pc[p] = "refresh_locked"
                                 /\ pc'[p] = "idle"
                                 /\ qVer[p] >= doneVer
                                 /\ cache' = Some(books[p])]_vars

\* C14 witness: the snapshot is older than a mutation that has returned, and
\* an all_books call has just been served it, although the table differs.
C14_ServedStale ==
    /\ Stale
    /\ ev = Return(ev.proc, "all_books", "cache_read", NoArg, OkList(cache.val))
    /\ cache.val # SelectAllOrdered(store)
    /\ ~Completing

\* ---- C15

\* Caller p's all_books found the snapshot None and holds its query's result,
\* not yet written.
HoldsResult(p) == pc[p] \in {"refresh", "refresh_locked"}

\* C15 as stated: whenever two all_books calls both found the snapshot None,
\* the results they write are equal to each other and to the table's current
\* ordered contents, whichever is written last.
C15_RacingWritesEqual ==
    \A p, q \in Procs :
        (p # q /\ HoldsResult(q)) =>
            /\ HoldsResult(p) =>
                  (books[p] = books[q] /\ books[q] = SelectAllOrdered(store))
            /\ cache.tag = "Some" =>
                  (cache.val = books[q] /\ books[q] = SelectAllOrdered(store))

\* C15 amended: two all_books calls that both found the snapshot None both
\* query and both write; the two values written are equal provided no
\* mutation took effect between the two queries, and a value written equals the
\* table's current contents provided none took effect since its query.
C15_RacingWritesEqualIfNoMutation ==
    \A p, q \in Procs :
        (p # q /\ HoldsResult(q)) =>
            /\ (HoldsResult(p) /\ qVer[p] = qVer[q]) => books[p] = books[q]
            /\ (cache.tag = "Some" /\ cacheVer = qVer[q]) => cache.val = books[q]
            /\ qVer[q] = storeVer => books[q] = SelectAllOrdered(store)

\* C15 witness: with no mutation so far, two all_books calls found the
\* snapshot None and queried; one has written its result and the other holds
\* the write lock, about to write the same.
C15_SecondWriteSame ==
    /\ storeVer = 0
    /\ listQueries = 2
    /\ cache.tag = "Some"
    /\ cache.val # <<>>
    /\ \E q \in Procs : /\ pc[q] = "refresh_locked"
                        /\ writer = q
                        /\ books[q] = cache.val

\* ---- C16

\* C16 (under SeqSpec: calls do not overlap and each call that changed the
\* table returns): every list all_books returns is the table's full ordered
\* contents at the time, as a repository without the cache would return; and
\* between calls a present snapshot equals those contents.
C16_SequentialEquivalence ==
    /\ (ev.what = "return" /\ ev.ret.kind = "OkList") =>
          ev.ret.val = SelectAllOrdered(store)
    /\ (cache.tag = "Some" /\ ~Completing) => cache.val = SelectAllOrdered(store)
    /\ \A p, q \in Procs : (pc[p] # "idle" /\ pc[q] # "idle") => p = q

\* C16 witness: after a list, a mutation and calls that failed or not, an
\* all_books call has been served from a snapshot rebuilt after the mutation.
C16_ListAfterMutation ==
    /\ doneVer >= 1
    /\ store # {}
    /\ cacheVer = storeVer
    /\ ev = Return(ev.proc, "all_books", "cache_read", NoArg, OkList(cache.val))
    /\ cache.val = SelectAllOrdered(store)

\* ---- C17

\* C17: in every reachable state a present snapshot, every query result an
\* all_books call holds and every list all_books returns is the complete
\* ordered contents the table had at one earlier (or the present) instant.
C17_WholePastStates ==
    /\ SelectAllOrdered(store) \in past
    /\ cache.tag = "Some" => cache.val \in past
    /\ \A p \in Procs : HoldsResult(p) => books[p] \in past
    /\ (ev.what = "return" /\ ev.ret.kind = "OkList") => ev.ret.val \in past

\* C17 witness: the table has had three different contents, no mutation is in
\* flight, and the snapshot, just written and returned, is one of the earlier
\* two.
C17_SnapshotIsEarlierState ==
    /\ Cardinality(past) >= 3
    /\ ~Completing
    /\ cache.tag = "Some"
    /\ cache.val # SelectAllOrdered(store)
    /\ cache.val \in past
    /\ ev = Return(ev.proc, "all_books", "refresh_locked", NoArg, OkList(cache.val))

\* ---- C18

\* C18: a create, update or delete whose statement has taken effect ends only
\* in a step that leaves the snapshot None; on no path does such a call end
\* without having invalidated the snapshot.
C18_NeverSkipped ==
    [][\A p \in Procs :
          (pc[p] \in {"invalidate", "invalidate_locked"} /\ pc'[p] = "idle") =>
              cache' = None]_vars

\* ---- C19

\* Some call in flight is not waiting for the lock, or waits for a lock it can
\* be granted.
CanProceed(p) ==
    \/ pc[p] \in {"cache_read", "query", "refresh_locked", "invalidate_locked"}
    \/ pc[p] \in {"refresh", "invalidate"} /\ writer = NoProc /\ readers = {}

\* In no state are all the calls in flight blocked on the lock.
NoLockDeadlock ==
    (\E p \in Procs : pc[p] # "idle") => \E p \in Procs : CanProceed(p)

\* C19 (under FairSpec: every Store call eventually returns and the lock is
\* granted fairly): in no reachable state are all pending calls blocked on the
\* snapshot lock, and every call that has started eventually returns (or is
\* dropped by its caller).
C19_EveryCallReturns ==
    /\ []NoLockDeadlock
    /\ \A p \in Procs : (pc[p] # "idle") ~> (pc[p] = "idle")

\* C19 witness: every caller has a call in flight, one waits for the write
\* guard behind the other's read guard.
C19_WaitingBehindReader ==
    /\ \A p \in Procs : pc[p] # "idle"
    /\ \E p, q \in Procs : /\ pc[p] \in {"refresh", "invalidate"}
                           /\ pc[q] = "cache_read"
                           /\ q \in readers

=============================================================================
